---- MODULE Spec2Model ----
(***************************************************************************)
(* Model of the bitex exchange facades GDAX and Lykke (interface classes)  *)
(* and of the Lykke REST backend.  One exchange instance is constructed.   *)
(* A call is a sequence of steps: pair check (with the lazily fetched pair *)
(* registry), the method body, the authentication of a private request,    *)
(* and the transmission of every request.                                  *)
(*   Spec      one caller, the whole method surface, call after call       *)
(*   SpecConc  NThreads callers interleaving calls of the methods that     *)
(*             reach the pair registry and the signer                      *)
(***************************************************************************)
EXTENDS Integers, Sequences, FiniteSets, TLC

\* ------------------------------------------------------------ bounds
NThreads == 2
MaxIds == 2
MaxNonce == 3

Threads == 1..NThreads
MainThread == CHOOSE t \in Threads : \A u \in Threads : t <= u

\* ------------------------------------------------------------ values
None == "<None>"
Absent == <<>>
Present(x) == <<x>>

Exchanges == {"GDAX", "Lykke"}
Keys == {None, "k"}
Secrets == {None, "", "s"}
DefaultTimeout == 5
Timeouts == {DefaultTimeout, DefaultTimeout + 4}

\* what the exchange's public pair endpoint answers, and what callers ask for
ExchangePairs == {"BTC-USD", "ETH-USD"}
Pairs == {"BTC-USD", "FOO-BAR"}
OrderIds == {"o1", "o2"}
ParamItems == {"p"}
DataItems == {"d"}
Currencies == {"usd", "BTC"}

RECURSIVE SeqsUpTo(_, _)
SeqsUpTo(S, n) ==
  IF n = 0 THEN {<<>>}
  ELSE LET shorter == SeqsUpTo(S, n - 1)
       IN shorter \cup {Append(s, x) : s \in {q \in shorter : Len(q) = n - 1}, x \in S}

IdSeqs == SeqsUpTo(OrderIds, MaxIds)

\* the method surface of the two facades
PairMethods == {"ticker", "order_book", "trades", "ask", "bid"}
CommonMethods == PairMethods \cup {"order_status", "open_orders", "cancel_order", "wallet"}
\* GDAX funds-transfer methods
TransferMethods == {"deposit_from_payment_method", "deposit_from_coinbase",
                    "withdraw_to_payment_method", "withdraw_to_coinbase", "withdraw"}
GDAXMethods == CommonMethods \cup TransferMethods
LykkeMethods == CommonMethods \cup {"assets", "request"}
MethodsOf(ex) == IF ex = "GDAX" THEN GDAXMethods ELSE LykkeMethods

\* the methods concurrent callers use: a public and a private pair-taking
\* method
ConcMethods == {"ticker", "bid"}

\* the error kinds of the typed taxonomy, and the kinds the code raises
Taxonomy == {"ConfigurationError", "UnsupportedPairError", "AuthenticationError",
             "ExchangeError", "TransportTimeoutError", "TransportError"}

VARIABLES
  exch,        \* which facade was constructed
  key,         \* REST.key
  secretArg,   \* the secret handed to the constructor
  secret,      \* REST.secret after construction
  timeout,     \* REST.timeout
  cached,      \* the pair registry holds a fetched set
  pairCache,   \* the fetched set
  inflight,    \* a registry fetch is in progress
  fetchGets,   \* GET requests issued by _get_supported_pairs, ever
  nonce,       \* last nonce allocated for the credential set
  nonceLog,    \* nonces in allocation order
  pc, method, pair, ids, kwargs, authArg,   \* per caller: position and inputs
  currency,    \* per caller: the currency argument of a funds transfer
  idx,         \* per caller: loop position of cancel_order
  pending,     \* per caller: request kwargs assembled, waiting for transmission
  reqs,        \* per caller: requests sent during the current call
  resps,       \* per caller: responses received during the current call
  asked,       \* per caller: authenticated requests the current call asked for
  sigs,        \* per caller: Signature Contexts built during the current call
  startCached, \* per caller: registry was fetched when the call started
  seen,        \* per caller: the supported set the pair check observed
  outcome, result

shared == <<exch, key, secretArg, secret, timeout>>
registry == <<cached, pairCache, inflight, fetchGets>>
nonces == <<nonce, nonceLog>>
inputs == <<method, pair, ids, kwargs, authArg, currency>>
vars == <<exch, key, secretArg, secret, timeout, cached, pairCache, inflight, fetchGets,
          nonce, nonceLog, pc, method, pair, ids, kwargs, authArg, currency, idx, pending, reqs,
          resps, asked, sigs, startCached, seen, outcome, result>>

NoReq == [verb |-> "", path |-> <<>>, auth |-> FALSE, via |-> "", timeout |-> Absent,
          params |-> Absent, data |-> Absent, json |-> Absent, headers |-> {},
          nonce |-> Absent]
NoKwargs == [params |-> {}, data |-> {}, json |-> {}]
NoResult == [raw |-> [kind |-> "none", value |-> <<>>]]

\* ------------------------------------------------------------ REST backend

\* variant: the constructor keeps the secret it was given
LykkeInitSecretKept(s) == s

\* LykkeREST.__init__: secret = secret or 'not applicable'
LykkeInitSecret(s) == IF s = None \/ s = "" THEN "not applicable" ELSE s

\* the secret the backend stores
InitSecret(ex, s) == IF ex = "Lykke" THEN LykkeInitSecret(s) ELSE s

\* Credential Store: configured iff key and secret are both non-empty
Configured(k, s) == k # None /\ k # "" /\ s # None /\ s # ""

\* LykkeREST.check_auth_requirements: the base check, re-raised unchanged
LykkeCheckAuthRequirements(k, s) == Configured(k, s)

CheckAuthRequirements(ex, k, s) ==
  IF ex = "Lykke" THEN LykkeCheckAuthRequirements(k, s) ELSE Configured(k, s)

\* generic request assembly of the backend: every entry present, the
\* caller's kwargs laid over the defaults
BaseRequestKwargs(verb, path, kw) ==
  [verb |-> verb, path |-> path, auth |-> FALSE, via |-> "transport", timeout |-> Absent,
   params |-> Present(kw.params), data |-> Present(kw.data), json |-> Present(kw.json),
   headers |-> {}, nonce |-> Absent]

\* variant: the allocation hands out the current value again
NextNonceStale(n) == n

\* nonce allocation of the Signature Context: a per-credential-set counter
NextNonce(n) == n + 1

\* the generic signing step of a backend whose scheme uses a nonce
BaseSign(rk, n) == [rk EXCEPT !.auth = TRUE, !.nonce = Present(n),
                              !.headers = {"signature"}]

\* LykkeREST.sign_request_kwargs
LykkeSignRequestKwargs(rk, k) ==
  LET params == rk.params[1]
  IN [rk EXCEPT !.auth = TRUE,
                !.headers = {<<"api-key", k>>},
                !.params = Absent,
                !.data = Present(IF params # {} THEN params ELSE rk.data[1])]

\* the transport sends what it is given with the configured timeout
Transmit(rk, tmo) == [rk EXCEPT !.timeout = Present(tmo)]

\* requests.request(...) called directly with the arguments the code gives it
DirectRequest(verb, path, params) ==
  [NoReq EXCEPT !.verb = verb, !.path = path, !.via = "requests",
                !.params = params]

\* ------------------------------------------------------------ facades

AsParams(items) == [NoKwargs EXCEPT !.params = items]
AsJson(items) == [NoKwargs EXCEPT !.json = items]

\* what a method body does first: raise, call requests.request directly,
\* call self.request once, or run the cancel loop
Raise(err) == [kind |-> "raise", err |-> err, rk |-> NoReq, auth |-> FALSE]
Direct(rk) == [kind |-> "direct", err |-> "", rk |-> rk, auth |-> FALSE]
Query(rk, au) == [kind |-> "query", err |-> "", rk |-> rk, auth |-> au]
Loop == [kind |-> "loop", err |-> "", rk |-> NoReq, auth |-> TRUE]

\* variant: bid lacks the check_and_format_pair decorator
GDAXPairCheckedNoBid(m) == m \in {"ticker", "order_book", "trades", "ask"}

\* the methods wrapped by check_and_format_pair
GDAXPairChecked(m) == m \in {"ticker", "order_book", "trades", "ask", "bid"}
LykkePairChecked(m) == m \in {"ticker", "order_book", "trades", "ask", "bid"}
PairChecked(ex, m) == IF ex = "GDAX" THEN GDAXPairChecked(m) ELSE LykkePairChecked(m)

\* GDAX._place_order
GDAXPlaceOrder(pr, side, kw) ==
  Query(BaseRequestKwargs("POST", <<"orders">>, AsJson({"product_id", "side=" \o side, "size", "price"} \cup kw)),
        TRUE)

\* str.upper() on the currency codes callers pass
Upper(c) == CASE c = "usd" -> "USD" [] c = "btc" -> "BTC" [] OTHER -> c

\* the destination keyword of each funds-transfer method
TransferDestination(m) ==
  CASE m \in {"deposit_from_payment_method", "withdraw_to_payment_method"} -> "payment_method_id"
    [] m \in {"deposit_from_coinbase", "withdraw_to_coinbase"} -> "coinbase_account_id"
    [] m = "withdraw" -> "crypto_address"

TransferPath(m) ==
  CASE m = "deposit_from_payment_method" -> <<"deposits", "payment-method">>
    [] m = "deposit_from_coinbase" -> <<"deposits", "coinbase-account">>
    [] m = "withdraw_to_payment_method" -> <<"withdrawals", "payment-method">>
    [] m = "withdraw_to_coinbase" -> <<"withdrawals", "coinbase-account">>
    [] m = "withdraw" -> <<"withdrawals", "crypto">>

\* kwargs.update({'amount': ..., 'currency': currency.upper(), <destination>: ...})
TransferKwargs(m, cur, kw) ==
  kw \cup {"amount", "currency=" \o Upper(cur), TransferDestination(m)}

\* the transfer methods whose self.request call is given json=kwargs
TransferPassesKwargs(m) == m = "withdraw"

\* GDAX.deposit_from_payment_method .. GDAX.withdraw
GDAXTransfer(m, cur, kw) ==
  Query(BaseRequestKwargs("POST", TransferPath(m),
                          IF TransferPassesKwargs(m) THEN AsJson(TransferKwargs(m, cur, kw))
                          ELSE NoKwargs),
        TRUE)

GDAXBody(m, pr, oids, kw, cur) ==
  CASE m = "ticker" -> Query(BaseRequestKwargs("GET", <<"products", pr, "ticker">>, AsParams(kw)), FALSE)
    [] m = "order_book" -> Query(BaseRequestKwargs("GET", <<"products", pr, "book">>, AsParams(kw)), FALSE)
    [] m = "trades" -> Query(BaseRequestKwargs("GET", <<"products", pr, "trades">>, AsParams(kw)), FALSE)
    [] m = "ask" -> GDAXPlaceOrder(pr, "sell", kw)
    [] m = "bid" -> GDAXPlaceOrder(pr, "buy", kw)
    [] m = "order_status" -> Query(BaseRequestKwargs("GET", <<"orders", oids[1]>>, AsJson(kw)), TRUE)
    [] m = "open_orders" -> Query(BaseRequestKwargs("GET", <<"orders">>, AsJson(kw)), TRUE)
    [] m = "cancel_order" -> Loop
    [] m = "wallet" -> Query(BaseRequestKwargs("GET", <<"accounts">>, AsJson(kw)), TRUE)
    [] m \in TransferMethods -> GDAXTransfer(m, cur, kw)

\* one iteration of GDAX.cancel_order's loop: the request for one identifier
GDAXCancelRequest(oid, kw) == BaseRequestKwargs("DELETE", <<"orders", oid>>, AsJson(kw))

\* variant: the return statement always hands back the list
CancelReturnList(rs) == [kind |-> "seq", value |-> rs]

\* GDAX.cancel_order's return statement
CancelReturn(rs) ==
  IF Len(rs) > 1 THEN [kind |-> "seq", value |-> rs] ELSE [kind |-> "single", value |-> rs[1]]

\* variant: the loop stops at the first response that reports an error
CancelStopsOnError(resp) == resp.status # "err"

\* the loop goes on after a response, whatever it reports
CancelContinues(resp) == TRUE

\* variant: cancel_order has no raise in front of its loop
LykkeStubbedNoCancel(m) == m \in {"ask", "bid", "order_status"}

\* the Lykke methods whose first statement is raise NotImplementedError
LykkeStubbed(m) == m \in {"ask", "bid", "order_status", "cancel_order"}

\* Lykke.trades: 'skip' and 'take' are mandatory
LykkeTradesParams(kw) == kw \cup {"skip", "take"}

\* the statements after the raise of a stubbed Lykke method
LykkeAfterRaise(m, pr, oids, kw) ==
  CASE m \in {"ask", "bid"} ->
         Query(BaseRequestKwargs(m, <<pr>>, AsParams({"amount", "price"} \cup kw)), TRUE)
    [] m = "order_status" ->
         Query(BaseRequestKwargs("api/order_status/", <<>>, AsParams({"id"} \cup kw)), TRUE)
    [] m = "cancel_order" -> Loop

LykkeCancelRequest(oid, kw) == BaseRequestKwargs("cancel_order/", <<>>, AsParams({"id"} \cup kw))

LykkeBody(m, pr, oids, kw, au) ==
  CASE m = "ticker" -> Direct(DirectRequest("GET", <<"Market", pr>>, Absent))
    [] m = "order_book" -> Direct(DirectRequest("GET", <<"OrderBook", pr>>, Present(kw.params)))
    [] m = "trades" ->
         Direct(DirectRequest("GET", <<"Trades", pr>>, Present(LykkeTradesParams(kw.params))))
    [] m = "assets" -> Direct(DirectRequest("GET", <<"Assets", "dictionary">>, Absent))
    [] m \in {"ask", "bid", "order_status", "cancel_order"} ->
         IF LykkeStubbed(m) THEN Raise("NotImplementedError")
         ELSE LykkeAfterRaise(m, pr, oids, kw.params)
    [] m = "open_orders" ->
         Query(BaseRequestKwargs("GET", <<"Orders">>, AsParams(kw.params \cup {"status"})), TRUE)
    [] m = "wallet" -> Query(BaseRequestKwargs("GET", <<"Wallets">>, AsParams(kw.params)), TRUE)
    [] m = "request" -> Query(BaseRequestKwargs("GET", <<"endpoint">>, kw), au)

FacadeBody(ex, m, pr, oids, kw, au, cur) ==
  IF ex = "GDAX" THEN GDAXBody(m, pr, oids, kw.params, cur) ELSE LykkeBody(m, pr, oids, kw, au)

CancelRequest(ex, oid, kw) ==
  IF ex = "GDAX" THEN GDAXCancelRequest(oid, kw.params) ELSE LykkeCancelRequest(oid, kw.params)

\* GDAX._get_supported_pairs: one direct GET of the products endpoint
GDAXGetSupportedPairs == << DirectRequest("GET", <<"products">>, Absent) >>

\* Lykke.asset_pairs: self.request('GET', 'AssetPairs')
LykkeAssetPairs == BaseRequestKwargs("GET", <<"AssetPairs">>, NoKwargs)

\* variant: the pair list is requested once for the response and once more
\* for its JSON
LykkeGetSupportedPairsTwice == << LykkeAssetPairs, LykkeAssetPairs >>

\* Lykke._get_supported_pairs
LykkeGetSupportedPairs == << LykkeAssetPairs >>

GetSupportedPairs(ex) == IF ex = "GDAX" THEN GDAXGetSupportedPairs ELSE LykkeGetSupportedPairs

\* a request as it leaves the process
OnWire(rk, tmo) == IF rk.via = "transport" THEN Transmit(rk, tmo) ELSE rk

OnWireAll(rks, tmo) == [i \in 1..Len(rks) |-> OnWire(rks[i], tmo)]

\* what the remote end can do with a request
Outcomes == {"ok", "err", "raise"}
Response(rk, o) == [path |-> rk.path, status |-> o]

\* format_with: the formatted response wraps the raw value and keeps it
FormatWith(raw) == [raw |-> raw]

\* ------------------------------------------------------------ state machine

Init ==
  /\ exch \in Exchanges
  /\ key \in Keys
  /\ secretArg \in Secrets
  /\ secret = InitSecret(exch, secretArg)
  /\ timeout \in Timeouts
  /\ cached = FALSE /\ pairCache = {} /\ inflight = FALSE /\ fetchGets = 0
  /\ nonce = 0 /\ nonceLog = <<>>
  /\ pc = [t \in Threads |-> "idle"]
  /\ method = [t \in Threads |-> ""]
  /\ pair = [t \in Threads |-> ""]
  /\ ids = [t \in Threads |-> <<>>]
  /\ kwargs = [t \in Threads |-> NoKwargs]
  /\ authArg = [t \in Threads |-> FALSE]
  /\ currency = [t \in Threads |-> ""]
  /\ idx = [t \in Threads |-> 1]
  /\ pending = [t \in Threads |-> NoReq]
  /\ reqs = [t \in Threads |-> <<>>]
  /\ resps = [t \in Threads |-> <<>>]
  /\ asked = [t \in Threads |-> 0]
  /\ sigs = [t \in Threads |-> 0]
  /\ startCached = [t \in Threads |-> FALSE]
  /\ seen = [t \in Threads |-> {}]
  /\ outcome = [t \in Threads |-> ""]
  /\ result = [t \in Threads |-> NoResult]

\* the inputs a caller may hand to method m
PairArgs(ex, m) == IF PairChecked(ex, m) \/ m \in PairMethods THEN Pairs ELSE {""}
IdArgs(m) ==
  CASE m = "cancel_order" -> IdSeqs
    [] m = "order_status" -> {<<o>> : o \in OrderIds}
    [] OTHER -> {<<>>}
KwArgs(ex, m) ==
  CASE ex = "Lykke" /\ m = "request" ->
         {[params |-> p, data |-> d, json |-> {}] : p \in SUBSET ParamItems, d \in SUBSET DataItems}
    [] ex = "Lykke" /\ m = "wallet" -> {AsParams(p) : p \in SUBSET ParamItems}
    [] ex = "GDAX" /\ m \in TransferMethods -> {AsParams(p) : p \in SUBSET ParamItems}
    [] OTHER -> {NoKwargs}
AuthArgs(ex, m) == IF ex = "Lykke" /\ m = "request" THEN BOOLEAN ELSE {FALSE}
CurrencyArgs(m) == IF m \in TransferMethods THEN Currencies ELSE {""}

Finish(t, o, r) ==
  /\ pc' = [pc EXCEPT ![t] = "done"]
  /\ outcome' = [outcome EXCEPT ![t] = o]
  /\ result' = [result EXCEPT ![t] = r]

\* a caller enters a public method of the facade
InvokeOf(t, M) ==
  /\ pc[t] = "idle"
  /\ \E m \in M :
       \E pr \in PairArgs(exch, m), oids \in IdArgs(m), kw \in KwArgs(exch, m),
          au \in AuthArgs(exch, m), cur \in CurrencyArgs(m) :
         /\ method' = [method EXCEPT ![t] = m]
         /\ pair' = [pair EXCEPT ![t] = pr]
         /\ ids' = [ids EXCEPT ![t] = oids]
         /\ kwargs' = [kwargs EXCEPT ![t] = kw]
         /\ authArg' = [authArg EXCEPT ![t] = au]
         /\ currency' = [currency EXCEPT ![t] = cur]
         /\ pc' = [pc EXCEPT ![t] = IF PairChecked(exch, m) THEN "check" ELSE "body"]
  /\ startCached' = [startCached EXCEPT ![t] = cached]
  /\ UNCHANGED <<shared, registry, nonces, idx, pending, reqs, resps, asked, sigs, seen,
                 outcome, result>>

Invoke(t) == InvokeOf(t, MethodsOf(exch))

InvokeConc(t) == InvokeOf(t, MethodsOf(exch) \cap ConcMethods)

\* pair registry, first use: one caller starts the fetch
StartFetch(t) ==
  /\ pc[t] = "check" /\ ~cached /\ ~inflight
  /\ inflight' = TRUE
  /\ fetchGets' = fetchGets + Len(GetSupportedPairs(exch))
  /\ reqs' = [reqs EXCEPT ![t] = @ \o OnWireAll(GetSupportedPairs(exch), timeout)]
  /\ pc' = [pc EXCEPT ![t] = "fetching"]
  /\ UNCHANGED <<shared, cached, pairCache, nonces, inputs, idx, pending, resps, asked,
                 sigs, startCached, seen, outcome, result>>

\* the fetch answers: the set is cached for the instance's lifetime
FinishFetch(t) ==
  /\ pc[t] = "fetching"
  /\ cached' = TRUE
  /\ pairCache' = ExchangePairs
  /\ inflight' = FALSE
  /\ pc' = [pc EXCEPT ![t] = "check"]
  /\ UNCHANGED <<shared, fetchGets, nonces, inputs, idx, pending, reqs, resps, asked,
                 sigs, startCached, seen, outcome, result>>

\* check_and_format_pair against the cached set
CheckPair(t) ==
  /\ pc[t] = "check" /\ cached
  /\ seen' = [seen EXCEPT ![t] = pairCache]
  /\ IF pair[t] \in pairCache
     THEN /\ pc' = [pc EXCEPT ![t] = "body"]
          /\ UNCHANGED <<outcome, result>>
     ELSE Finish(t, "UnsupportedPairError", NoResult)
  /\ UNCHANGED <<shared, registry, nonces, inputs, idx, pending, reqs, resps, asked,
                 sigs, startCached>>

Plan(t) == FacadeBody(exch, method[t], pair[t], ids[t], kwargs[t], authArg[t], currency[t])

\* the method body up to its first request
Body(t) ==
  /\ pc[t] = "body"
  /\ LET b == Plan(t)
     IN CASE b.kind = "raise" ->
               /\ Finish(t, b.err, NoResult)
               /\ UNCHANGED <<pending, asked>>
          [] b.kind = "loop" ->
               /\ pc' = [pc EXCEPT ![t] = "loop"]
               /\ UNCHANGED <<pending, asked, outcome, result>>
          [] OTHER ->
               /\ pending' = [pending EXCEPT ![t] = b.rk]
               /\ pc' = [pc EXCEPT ![t] = IF b.auth THEN "auth" ELSE "send"]
               /\ asked' = [asked EXCEPT ![t] = IF b.auth THEN @ + 1 ELSE @]
               /\ UNCHANGED <<outcome, result>>
  /\ UNCHANGED <<shared, registry, nonces, inputs, idx, reqs, resps, sigs, startCached,
                 seen>>

\* cancel_order: the loop head and the return statement
CancelLoop(t) ==
  /\ pc[t] = "loop"
  /\ IF idx[t] <= Len(ids[t])
     THEN /\ pending' = [pending EXCEPT ![t] = CancelRequest(exch, ids[t][idx[t]], kwargs[t])]
          /\ pc' = [pc EXCEPT ![t] = "auth"]
          /\ asked' = [asked EXCEPT ![t] = @ + 1]
          /\ UNCHANGED <<outcome, result>>
     ELSE /\ IF resps[t] = <<>>
             THEN Finish(t, "IndexError", NoResult)
             ELSE Finish(t, "return", FormatWith(CancelReturn(resps[t])))
          /\ UNCHANGED <<pending, asked>>
  /\ UNCHANGED <<shared, registry, nonces, inputs, idx, reqs, resps, sigs, startCached,
                 seen>>

\* a private request: the credential check, then the Signature Context
Authenticate(t) ==
  /\ pc[t] = "auth"
  /\ IF ~CheckAuthRequirements(exch, key, secret)
     THEN /\ Finish(t, "ConfigurationError", NoResult)
          /\ pending' = [pending EXCEPT ![t] = NoReq]
          /\ UNCHANGED <<nonces, sigs>>
     ELSE /\ sigs' = [sigs EXCEPT ![t] = @ + 1]
          /\ pc' = [pc EXCEPT ![t] = "send"]
          /\ UNCHANGED <<outcome, result>>
          /\ IF exch = "Lykke"
             THEN /\ pending' = [pending EXCEPT ![t] = LykkeSignRequestKwargs(@, key)]
                  /\ UNCHANGED nonces
             ELSE /\ nonce < MaxNonce
                  /\ nonce' = NextNonce(nonce)
                  /\ nonceLog' = Append(nonceLog, nonce')
                  /\ pending' = [pending EXCEPT ![t] = BaseSign(@, nonce')]
  /\ UNCHANGED <<shared, registry, inputs, idx, reqs, resps, asked, startCached, seen>>

\* the request goes out and the remote end answers, or the call raises
Send(t) ==
  /\ pc[t] = "send"
  /\ LET rk == OnWire(pending[t], timeout)
     IN /\ reqs' = [reqs EXCEPT ![t] = Append(@, rk)]
        /\ pending' = [pending EXCEPT ![t] = NoReq]
        /\ \E o \in Outcomes :
             IF o = "raise"
             THEN /\ Finish(t, "TransportError", NoResult)
                  /\ UNCHANGED <<resps, idx>>
             ELSE LET rs == Append(resps[t], Response(rk, o))
                  IN /\ resps' = [resps EXCEPT ![t] = rs]
                     /\ IF Plan(t).kind = "loop"
                        THEN /\ idx' = [idx EXCEPT ![t] = @ + 1]
                             /\ IF CancelContinues(Response(rk, o))
                                THEN /\ pc' = [pc EXCEPT ![t] = "loop"]
                                     /\ UNCHANGED <<outcome, result>>
                                ELSE Finish(t, "ExchangeError", NoResult)
                        ELSE /\ Finish(t, "return",
                                       FormatWith([kind |-> "single", value |-> rs[1]]))
                             /\ UNCHANGED idx
  /\ UNCHANGED <<shared, registry, nonces, inputs, asked, sigs, startCached, seen>>

\* the caller takes the result or the error; the thread is free again
Return(t) ==
  /\ pc[t] = "done"
  /\ pc' = [pc EXCEPT ![t] = "idle"]
  /\ method' = [method EXCEPT ![t] = ""]
  /\ pair' = [pair EXCEPT ![t] = ""]
  /\ ids' = [ids EXCEPT ![t] = <<>>]
  /\ kwargs' = [kwargs EXCEPT ![t] = NoKwargs]
  /\ authArg' = [authArg EXCEPT ![t] = FALSE]
  /\ currency' = [currency EXCEPT ![t] = ""]
  /\ idx' = [idx EXCEPT ![t] = 1]
  /\ reqs' = [reqs EXCEPT ![t] = <<>>]
  /\ resps' = [resps EXCEPT ![t] = <<>>]
  /\ asked' = [asked EXCEPT ![t] = 0]
  /\ sigs' = [sigs EXCEPT ![t] = 0]
  /\ startCached' = [startCached EXCEPT ![t] = FALSE]
  /\ seen' = [seen EXCEPT ![t] = {}]
  /\ outcome' = [outcome EXCEPT ![t] = ""]
  /\ result' = [result EXCEPT ![t] = NoResult]
  /\ UNCHANGED <<shared, registry, nonces, pending>>

Next ==
  \E t \in {MainThread} :
    \/ Invoke(t)
    \/ StartFetch(t)
    \/ FinishFetch(t)
    \/ CheckPair(t)
    \/ Body(t)
    \/ CancelLoop(t)
    \/ Authenticate(t)
    \/ Send(t)
    \/ Return(t)

Spec == Init /\ [][Next]_vars

NextConc ==
  \E t \in Threads :
    \/ InvokeConc(t)
    \/ StartFetch(t)
    \/ FinishFetch(t)
    \/ CheckPair(t)
    \/ Body(t)
    \/ Authenticate(t)
    \/ Send(t)
    \/ Return(t)

\* the concurrent callers share an instance built with the default timeout;
\* an empty secret takes the same paths as an absent one
InitConc == Init /\ timeout = DefaultTimeout /\ secretArg # ""

SpecConc == InitConc /\ [][NextConc]_vars

\* ------------------------------------------------------------ properties

Done(t) == pc[t] = "done"
AuthSent(t) == \E i \in 1..Len(reqs[t]) : reqs[t][i].auth
IsFetch(r) == \E i \in 1..Len(GetSupportedPairs(exch)) :
                r = OnWire(GetSupportedPairs(exch)[i], timeout)
Missing(x) == x = None \/ x = ""

\* C1: a pair-taking method called with a pair outside the fetched supported
\* set fails with UnsupportedPairError; the call sends no request of its own
\* (the only request it can have sent is the registry's first fetch), and
\* with the set already fetched when the call started it sends none at all.
C1_UnsupportedPairNoRequest ==
  \A t \in Threads :
    (method[t] \in PairMethods /\ pair[t] \notin ExchangePairs) =>
      /\ \A i \in 1..Len(reqs[t]) : IsFetch(reqs[t][i])
      /\ startCached[t] => reqs[t] = <<>>
      /\ pending[t] = NoReq /\ asked[t] = 0 /\ sigs[t] = 0
      /\ pc[t] \notin {"body", "auth", "send", "loop"}
      /\ Done(t) => outcome[t] = "UnsupportedPairError" /\ seen[t] = pairCache

C1_Witness ==
  \E t \in Threads :
    /\ Done(t) /\ method[t] = "bid" /\ pair[t] = "FOO-BAR" /\ startCached[t]
    /\ outcome[t] = "UnsupportedPairError" /\ reqs[t] = <<>>

\* C2 (as claimed): a private operation requested with the key absent or the
\* secret absent or empty fails with a configuration error before any
\* Signature Context is built and before any request is sent, on every
\* exchange.
C2_Original ==
  \A t \in Threads :
    (asked[t] > 0 /\ (Missing(key) \/ Missing(secretArg))) =>
      /\ sigs[t] = 0 /\ ~AuthSent(t) /\ ~pending[t].auth
      /\ pc[t] # "send"
      /\ Done(t) => outcome[t] = "ConfigurationError"

\* C2 (amended): a private operation requested with the key absent, or on
\* GDAX with the secret absent or empty, fails with a configuration error
\* before any Signature Context is built and before any request is sent; the
\* key-only Lykke backend constructed with a key and without a secret stores
\* a placeholder secret, so its private operations pass the credential check
\* and are signed.
C2_MissingCredentials ==
  \A t \in Threads :
    /\ (asked[t] > 0 /\ (Missing(key) \/ (exch # "Lykke" /\ Missing(secretArg)))) =>
         /\ sigs[t] = 0 /\ ~AuthSent(t) /\ ~pending[t].auth
         /\ pc[t] # "send"
         /\ Done(t) => outcome[t] = "ConfigurationError"
    /\ (asked[t] > 0 /\ exch = "Lykke" /\ ~Missing(key) /\ Done(t)) =>
         /\ outcome[t] # "ConfigurationError"
         /\ sigs[t] = asked[t] /\ AuthSent(t)

C2_Witness ==
  \E t \in Threads :
    /\ Done(t) /\ exch = "GDAX" /\ method[t] = "wallet"
    /\ key = "k" /\ secretArg = ""
    /\ outcome[t] = "ConfigurationError" /\ sigs[t] = 0 /\ reqs[t] = <<>>

IsCancel(t) == method[t] = "cancel_order"

C4_CancelOrderRequests ==
  \A t \in Threads :
    (exch = "GDAX" /\ IsCancel(t)) =>
      /\ Len(reqs[t]) <= Len(ids[t])
      /\ \A k \in 1..Len(reqs[t]) :
           /\ reqs[t][k].verb = "DELETE"
           /\ reqs[t][k].path = <<"orders", ids[t][k]>>
           /\ reqs[t][k].auth
      /\ (Done(t) /\ outcome[t] = "return") =>
           /\ Len(reqs[t]) = Len(ids[t])
           /\ Len(ids[t]) = 1 =>
                /\ result[t].raw.kind = "single"
                /\ result[t].raw.value.path = <<"orders", ids[t][1]>>
           /\ Len(ids[t]) >= 2 =>
                /\ result[t].raw.kind = "seq"
                /\ Len(result[t].raw.value) = Len(ids[t])
                /\ \A k \in 1..Len(ids[t]) :
                     result[t].raw.value[k].path = <<"orders", ids[t][k]>>

C4_Witness ==
  \E t \in Threads :
    /\ Done(t) /\ exch = "GDAX" /\ IsCancel(t) /\ outcome[t] = "return"
    /\ ids[t] = <<"o2", "o1">>
    /\ result[t].raw.kind = "seq"
    /\ result[t].raw.value[1].path = <<"orders", "o2">>

\* C5: over the instance's lifetime _get_supported_pairs runs at most once
\* and sends one unauthenticated GET, whatever the interleaving of the first
\* callers; a call that starts after the fetch sends no fetch, and every
\* pair check observes the same cached set.
C5_SingleFetch ==
  /\ fetchGets <= 1
  /\ cached => (pairCache = ExchangePairs /\ fetchGets = 1 /\ ~inflight)
  /\ \A t \in Threads :
       /\ seen[t] # {} => (cached /\ seen[t] = pairCache)
       /\ startCached[t] => \A i \in 1..Len(reqs[t]) : ~IsFetch(reqs[t][i])
       /\ \A i \in 1..Len(reqs[t]) :
            IsFetch(reqs[t][i]) => (reqs[t][i].verb = "GET" /\ ~reqs[t][i].auth)
       /\ pc[t] = "fetching" => (inflight /\ ~cached)
  /\ \A t1, t2 \in Threads :
       (t1 # t2 /\ pc[t1] = "fetching") => pc[t2] # "fetching"

C5_Witness ==
  \E t1, t2 \in Threads :
    /\ t1 # t2 /\ exch = "Lykke"
    /\ ~startCached[t1] /\ ~startCached[t2]
    /\ Done(t1) /\ Done(t2)
    /\ seen[t1] = ExchangePairs /\ seen[t2] = ExchangePairs
    /\ fetchGets = 1

SignedOf(t) ==
  {reqs[t][i] : i \in {j \in 1..Len(reqs[t]) : reqs[t][j].auth}}
    \cup (IF pending[t].auth THEN {pending[t]} ELSE {})
NoncesOf(t) == {r.nonce[1] : r \in {q \in SignedOf(t) : q.nonce # Absent}}

\* C6: the nonces of one credential set are strictly increasing in
\* allocation order, and signed requests of different callers, sent or
\* about to be sent, never carry the same nonce; within one call the nonces
\* of the requests sent increase.
C6_NonceStrictlyIncreasing ==
  /\ \A i, j \in 1..Len(nonceLog) : i < j => nonceLog[i] < nonceLog[j]
  /\ \A t1, t2 \in Threads : t1 # t2 => NoncesOf(t1) \cap NoncesOf(t2) = {}
  /\ \A t \in Threads :
       /\ \A r \in SignedOf(t) :
            r.nonce # Absent => \E i \in 1..Len(nonceLog) : nonceLog[i] = r.nonce[1]
       /\ \A i, j \in 1..Len(reqs[t]) :
            (i < j /\ reqs[t][i].nonce # Absent /\ reqs[t][j].nonce # Absent) =>
              reqs[t][i].nonce[1] < reqs[t][j].nonce[1]
       /\ Cardinality(NoncesOf(t)) = IF exch = "Lykke" THEN 0 ELSE sigs[t]

C6_Witness ==
  \E t1, t2 \in Threads :
    /\ t1 # t2
    /\ pc[t1] = "send" /\ pc[t2] = "send"
    /\ pending[t1].auth /\ pending[t2].auth
    /\ pending[t1].nonce # Absent /\ pending[t2].nonce # Absent
    /\ pending[t1].nonce[1] < pending[t2].nonce[1]

\* C7 (as claimed): every request a facade sends carries the configured
\* timeout.
C7_Original ==
  \A t \in Threads :
    \A i \in 1..Len(reqs[t]) : reqs[t][i].timeout = Present(timeout)

\* C8 (as claimed): a finished call of a public facade method has returned a
\* result or raised one error of the typed taxonomy.
C8_Original ==
  \A t \in Threads :
    (Done(t) /\ method[t] \in CommonMethods) =>
      outcome[t] \in {"return"} \cup Taxonomy

\* C9: Lykke ask, bid, order_status and cancel_order never return a result
\* and never ask for, sign or send an authenticated request; they end with
\* NotImplementedError (or, for ask and bid with a pair outside the supported
\* set, with UnsupportedPairError).
C9_LykkeStubsFail ==
  \A t \in Threads :
    (exch = "Lykke" /\ method[t] \in {"ask", "bid", "order_status", "cancel_order"}) =>
      /\ outcome[t] # "return" /\ result[t] = NoResult
      /\ asked[t] = 0 /\ sigs[t] = 0 /\ ~AuthSent(t) /\ ~pending[t].auth
      /\ pc[t] \notin {"auth", "send", "loop"}
      /\ Done(t) =>
           /\ outcome[t] \in {"NotImplementedError", "UnsupportedPairError"}
           /\ outcome[t] = "UnsupportedPairError" =>
                (method[t] \in {"ask", "bid"} /\ pair[t] \notin ExchangePairs)

C9_Witness ==
  \E t \in Threads :
    /\ Done(t) /\ exch = "Lykke" /\ method[t] = "bid" /\ pair[t] = "BTC-USD"
    /\ outcome[t] = "NotImplementedError" /\ result[t] = NoResult

\* C10 (as claimed): a request signed by the Lykke backend has no 'params'
\* entry, its 'data' holds every parameter that was in 'params' and all that
\* 'data' held before, and its headers carry the api-key.
C10_Original ==
  \A t \in Threads :
    (exch = "Lykke" /\ pending[t].auth /\ Plan(t).kind = "query") =>
      LET before == Plan(t).rk
      IN /\ pending[t].params = Absent
         /\ pending[t].data # Absent
         /\ before.params[1] \subseteq pending[t].data[1]
         /\ before.data[1] \subseteq pending[t].data[1]
         /\ <<"api-key", key>> \in pending[t].headers

\* C11 (as claimed): the authenticated POST of every GDAX funds-transfer
\* method carries the amount, the upper-cased currency, the destination
\* identifier and the caller's extra keyword arguments.
C11_Original ==
  \A t \in Threads :
    (exch = "GDAX" /\ method[t] \in TransferMethods) =>
      \A i \in 1..Len(reqs[t]) :
        /\ reqs[t][i].verb = "POST" /\ reqs[t][i].auth
        /\ reqs[t][i].path = TransferPath(method[t])
        /\ reqs[t][i].json # Absent
        /\ ({"amount", "currency=" \o Upper(currency[t]), TransferDestination(method[t])}
              \cup kwargs[t].params) \subseteq reqs[t][i].json[1]

====
